---- MODULE Spec2Model ----
(***************************************************************************)
(* A model of streamlit_app.py: the Overpass place fetch with its cuisine  *)
(* classification and filter, the crime statistics loader, the memoized    *)
(* fetchers, and the session state handlers (reviews, recommendations,     *)
(* search marker, Gemini chat).                                            *)
(*                                                                         *)
(* Strings whose characters matter (cuisine tags, region codes, district   *)
(* names) are sequences of one-character strings, so that lower(), `in`,   *)
(* endswith() and strip() are computed character by character.             *)
(* The Korean UI labels are written in ASCII: "All" is the sentinel of     *)
(* line 91, "Korean", "Western", "Asian", "Cafe", "General/Other" are the  *)
(* five classes of lines 85-89 and "Other" is the default of line 83.      *)
(***************************************************************************)
EXTENDS Integers, Sequences, FiniteSets, TLC

VARIABLES
    \* get_osm_places (lines 52-104)
    category, cuisine_filter, response, results, places_pc,
    \* load_and_process_crime_data (lines 106-152)
    csv_file, crime_df, loader_pc,
    \* st.cache_data (lines 34, 43, 52, 106): the memoized values, and
    \* bookkeeping on the calls made: how often each function body ran, what
    \* its first run produced, the latest call and the value it handed back
    cache, calls, first, last, returned,
    \* st.session_state['reviews'] (line 235) and sel_place (lines 398-401)
    reviews, sel_place,
    \* st.session_state['recommendations'] (line 236), each entry with the
    \* ordinal of its submission, and the number of submissions so far
    recommendations, rec_count,
    \* st.session_state['map_center'] and ['search_marker'] (lines 238-239),
    \* search_query (line 257), and the latest location a search found
    map_center, search_marker, search_query, last_found,
    \* GEMINI_API_KEY (line 15), st.session_state['messages'] (line 237),
    \* prompt (line 446), the position of the script in the chat handler,
    \* the number of prompts submitted so far, and the latest outcome of
    \* the Gemini service
    GEMINI_API_KEY, messages, prompt, chat_pc, chat_count, gemini,
    \* the widget event the latest script run handled, and whether that run
    \* ended in an uncaught exception (which Streamlit shows to the user)
    event, error

vars == <<category, cuisine_filter, response, results, places_pc,
          csv_file, crime_df, loader_pc,
          cache, calls, first, last, returned,
          reviews, sel_place, recommendations, rec_count,
          map_center, search_marker, search_query, last_found,
          GEMINI_API_KEY, messages, prompt, chat_pc, chat_count, gemini,
          event, error>>

placesVars == <<category, cuisine_filter, response, results, places_pc>>
loaderVars == <<csv_file, crime_df, loader_pc>>
fetchVars == <<cache, calls, first, last, returned>>
reviewVars == <<reviews, sel_place>>
recVars == <<recommendations, rec_count>>
searchVars == <<map_center, search_marker, search_query, last_found>>
chatVars == <<GEMINI_API_KEY, messages, prompt, chat_pc, chat_count, gemini>>
eventVars == <<event, error>>

\* A dictionary key that is absent: for a key holding a plain value, and for
\* a key holding a character string.
NoKey == "<absent>"
NoStr == << "<absent>" >>

(***************************************************************************)
(* Bounds                                                                  *)
(***************************************************************************)
\* Longest Overpass response, in elements.
MaxElems == 2
\* Longest cuisine tag, in words of TagWords.
MaxWords == 2

(***************************************************************************)
(* Character strings                                                       *)
(***************************************************************************)
UpperChars == <<"A","B","C","D","E","F","G","H","I","J","K","L","M",
                "N","O","P","Q","R","S","T","U","V","W","X","Y","Z">>
LowerChars == <<"a","b","c","d","e","f","g","h","i","j","k","l","m",
                "n","o","p","q","r","s","t","u","v","w","x","y","z">>

\* str.lower() on one character.
LowerChar(c) ==
    IF \E i \in 1..Len(UpperChars) : UpperChars[i] = c
    THEN LowerChars[CHOOSE i \in 1..Len(UpperChars) : UpperChars[i] = c]
    ELSE c

\* str.lower()
Lower(s) == [i \in 1..Len(s) |-> LowerChar(s[i])]

\* Python's `kw in s` on strings: kw occurs as a contiguous substring of s.
Occurs(kw, s) ==
    \E i \in 1..(Len(s) - Len(kw) + 1) : SubSeq(s, i, i + Len(kw) - 1) = kw

\* any(x in s for x in kws)
AnyIn(kws, s) == \E k \in 1..Len(kws) : Occurs(kws[k], s)

kw_korean == <<"k","o","r","e","a","n">>
kw_western == <<
    <<"b","u","r","g","e","r">>, <<"p","i","z","z","a">>,
    <<"i","t","a","l","i","a","n">>, <<"f","r","e","n","c","h">>,
    <<"g","e","r","m","a","n">>, <<"a","m","e","r","i","c","a","n">>,
    <<"s","t","e","a","k">> >>
kw_asian == <<
    <<"c","h","i","n","e","s","e">>, <<"v","i","e","t","n","a","m","e","s","e">>,
    <<"t","h","a","i">>, <<"j","a","p","a","n","e","s","e">>,
    <<"s","u","s","h","i">>, <<"a","s","i","a","n">>,
    <<"i","n","d","i","a","n">> >>
kw_cafe == <<
    <<"c","o","f","f","e","e">>, <<"c","a","f","e">>, <<"c","a","k","e">> >>
str_general == <<"g","e","n","e","r","a","l">>

(***************************************************************************)
(* get_osm_places                                                          *)
(***************************************************************************)
\* Mutant of CuisineClass: the Western test is made before the Korean one.
CuisineClassWesternFirst(cuisine) ==
    IF AnyIn(kw_western, cuisine) THEN "Western"
    ELSE IF Occurs(kw_korean, cuisine) THEN "Korean"
    ELSE IF AnyIn(kw_asian, cuisine) THEN "Asian"
    ELSE IF AnyIn(kw_cafe, cuisine) THEN "Cafe"
    ELSE "General/Other"

\* The if/elif chain of lines 85-89 on the lower-cased tag.
CuisineClass(cuisine) ==
    IF Occurs(kw_korean, cuisine) THEN "Korean"
    ELSE IF AnyIn(kw_western, cuisine) THEN "Western"
    ELSE IF AnyIn(kw_asian, cuisine) THEN "Asian"
    ELSE IF AnyIn(kw_cafe, cuisine) THEN "Cafe"
    ELSE "General/Other"

\* element['tags'].get('cuisine', 'general').lower()   (line 80)
RawCuisine(element) ==
    Lower(IF element.cuisine = NoStr THEN str_general ELSE element.cuisine)

\* place_type of lines 83-89: classified for restaurants only.
PlaceType(cat, cuisine) ==
    IF cat = "restaurant" THEN CuisineClass(cuisine) ELSE "Other"

\* The cuisine_filter argument: None (the default of line 53) or the list of
\* selected options, of which only membership is read.
NoFilter == [is_none |-> TRUE, items |-> {}]
Selected(S) == [is_none |-> FALSE, items |-> S]

\* Python truth value of the argument: None and the empty list are falsy.
Truthy(filter) == ~filter.is_none /\ filter.items # {}

\* Mutant of Skipped: the sentinel "All" is not honoured.
SkippedIgnoringAll(cat, place_type, filter) ==
    /\ cat = "restaurant"
    /\ Truthy(filter)
    /\ place_type \notin filter.items

\* Lines 91-92: the `continue` of the restaurant branch.
Skipped(cat, place_type, filter) ==
    /\ cat = "restaurant"
    /\ Truthy(filter) /\ "All" \notin filter.items
    /\ place_type \notin filter.items

\* 'tags' in element and 'name' in element['tags']   (line 79)
HasName(element) == element.tags /\ element.name # NoKey

\* The dictionary appended at lines 94-101.
Place(cat, element) ==
    [name |-> element.name, lat |-> element.lat, lng |-> element.lon,
     type |-> cat, cuisine_type |-> PlaceType(cat, RawCuisine(element)),
     raw_cuisine |-> RawCuisine(element)]

\* The loop of lines 77-101 from element i on, with the list built so far.
RECURSIVE PlacesLoop(_, _, _, _, _)
PlacesLoop(elements, i, cat, filter, acc) ==
    IF i > Len(elements) THEN acc
    ELSE LET element == elements[i] IN
         IF ~HasName(element)
         THEN PlacesLoop(elements, i + 1, cat, filter, acc)
         ELSE IF Skipped(cat, PlaceType(cat, RawCuisine(element)), filter)
         THEN PlacesLoop(elements, i + 1, cat, filter, acc)
         ELSE PlacesLoop(elements, i + 1, cat, filter,
                         Append(acc, Place(cat, element)))

\* The outcome of a block of code: the exception that left it ("none" if it
\* ran to its end) and the value it produced.
Returned(v) == [raised |-> "none", value |-> v]
Raised(e) == [raised |-> e, value |-> <<>>]

\* Mutant of Except: the handler catches the errors of the request only
\* (requests.RequestException), not those of decoding and indexing.
ExceptRequestErrorsOnly(block, fallback) ==
    IF block.raised \in {"network_error", "timeout"} THEN Returned(fallback)
    ELSE block

\* try: block / except: return fallback (lines 40-41, 49-50, 103-104 and
\* 150-152).  Every exception the block raises is caught.
Except(block, fallback) ==
    IF block.raised # "none" THEN Returned(fallback) ELSE block

\* The try block of lines 74-102: requests.get raises on a network error or
\* a timeout, response.json() on a body that is not JSON, data['elements']
\* on a document without that key.
PlacesTry(cat, filter, resp) ==
    IF resp.kind # "ok" THEN Raised(resp.kind)
    ELSE Returned(PlacesLoop(resp.elements, 1, cat, filter, <<>>))

\* get_osm_places(category, lat, lng, radius_m, cuisine_filter) as a function
\* of the category, the filter and what the Overpass request produced.
get_osm_places(cat, filter, resp) ==
    IF cat \notin {"restaurant", "hotel", "tourism"} THEN Returned(<<>>)
    ELSE Except(PlacesTry(cat, filter, resp), <<>>)

(***************************************************************************)
(* Inputs of the place fetch                                               *)
(***************************************************************************)
Categories == {"restaurant", "hotel", "tourism", "bar"}

\* cuisine_options of line 276.
CuisineOptions == {"All", "Korean", "Western", "Asian", "Cafe", "General/Other"}

Filters ==
    {NoFilter} \cup
    { Selected(S) : S \in { {}, {"All"}, {"Korean"}, {"Korean", "Cafe"},
                            {"All", "Western"}, {"General/Other"},
                            {"Asian", "Western"} } }

\* Pieces cuisine tags are built from; pieces are concatenated without a
\* separator, so a keyword may also arise across two pieces.
TagWords == {
    <<"K","o","r","e","a","n">>, <<"k","o","R","E","A","N">>,
    <<"p","i","z","z","a">>, <<"S","u","s","h","i">>, <<"c","a","f","e">>,
    <<"v","e","g","a","n">>, <<";">>, <<"k","o","r","e">>, <<"a","n">> }

RECURSIVE TagsOfLen(_)
TagsOfLen(n) ==
    IF n = 0 THEN { <<>> }
    ELSE { t \o w : t \in TagsOfLen(n - 1), w \in TagWords }

Tags == UNION { TagsOfLen(n) : n \in 0..MaxWords }

\* A few tags, one per class, for the responses of several elements.
FewTags == { <<"k","o","r","e","a","n",";","p","i","z","z","a">>,
             <<"P","i","z","z","a">>, <<"s","u","s","h","i">>,
             <<"c","a","f","e">> }

\* Overpass node elements always carry lat and lon (the query of line 68
\* asks for nodes); tags and the name and cuisine keys are optional.
Node(tags, name, cuisine) ==
    [tags |-> tags, name |-> name, cuisine |-> cuisine, lat |-> 52, lon |-> 13]

FewElements ==
    { Node(FALSE, NoKey, NoStr), Node(TRUE, NoKey, NoStr) }
    \cup { Node(TRUE, n, c) : n \in {"a", "b"}, c \in FewTags \cup {NoStr} }

RECURSIVE SeqsUpTo(_, _)
SeqsUpTo(S, n) ==
    IF n = 0 THEN { <<>> }
    ELSE LET shorter == SeqsUpTo(S, n - 1) IN
         shorter \cup { Append(s, x) : s \in { t \in shorter : Len(t) = n - 1 },
                                        x \in S }

Responses ==
    { [kind |-> k, elements |-> <<>>] :
        k \in {"network_error", "timeout", "not_json", "missing_key"} }
    \cup { [kind |-> "ok", elements |-> es] : es \in SeqsUpTo(FewElements, MaxElems) }
    \cup { [kind |-> "ok", elements |-> << Node(TRUE, "a", t) >>] : t \in Tags }

InitPlaces ==
    /\ category \in Categories
    /\ cuisine_filter \in Filters
    /\ response \in Responses
    /\ results = <<>>
    /\ places_pc = "start"

IdlePlaces ==
    /\ category = "restaurant"
    /\ cuisine_filter = NoFilter
    /\ response = [kind |-> "ok", elements |-> <<>>]
    /\ results = <<>>
    /\ places_pc = "idle"

\* One call of get_osm_places.
GetOsmPlaces ==
    /\ places_pc = "start"
    /\ results' = get_osm_places(category, cuisine_filter, response).value
    /\ places_pc' = "done"
    /\ UNCHANGED <<category, cuisine_filter, response>>


(***************************************************************************)
(* C1, C2: classification and filter of the place fetch                    *)
(***************************************************************************)
\* The classification as the ordered rule list of the specification.
Rules == <<
    [class |-> "Korean", keywords |-> {kw_korean}],
    [class |-> "Western", keywords |-> {kw_western[k] : k \in 1..Len(kw_western)}],
    [class |-> "Asian", keywords |-> {kw_asian[k] : k \in 1..Len(kw_asian)}],
    [class |-> "Cafe", keywords |-> {kw_cafe[k] : k \in 1..Len(kw_cafe)}] >>

FiveClasses == {"Korean", "Western", "Asian", "Cafe", "General/Other"}

\* The class of the first rule one of whose keywords occurs in t.
FirstMatch(t) ==
    LET hits == { r \in 1..Len(Rules) :
                    \E kw \in Rules[r].keywords : Occurs(kw, t) }
    IN  IF hits = {} THEN "General/Other"
        ELSE Rules[CHOOSE r \in hits : \A q \in hits : r <= q].class

\* kw, given in lower case, occurs in s in some mixture of letter cases.
OccursAnyCase(kw, s) ==
    \E i \in 1..(Len(s) - Len(kw) + 1) :
        \A j \in 1..Len(kw) :
            \/ s[i + j - 1] = kw[j]
            \/ \E n \in 1..Len(LowerChars) :
                   LowerChars[n] = kw[j] /\ UpperChars[n] = s[i + j - 1]

\* The cuisine tag of an element as sent by the service ('general' if absent).
TagOf(element) == IF element.cuisine = NoStr THEN str_general ELSE element.cuisine

NamedElements == SelectSeq(response.elements, HasName)

\* C1: in a restaurant fetch every returned place carries exactly one of the
\* five classes, the class of the first rule (Korean, Western, Asian, Cafe)
\* with a keyword in the lower-cased tag, General/Other if there is none; and
\* with no filter in force every named element is classified so from the tag
\* the service sent, a tag holding 'korean' in any letter case being Korean
\* whatever other keywords it holds.
C1_FirstMatchClassification ==
    (places_pc = "done" /\ category = "restaurant" /\ response.kind = "ok") =>
        /\ \A i \in 1..Len(results) :
               /\ results[i].cuisine_type \in FiveClasses
               /\ results[i].cuisine_type = FirstMatch(results[i].raw_cuisine)
        /\ ~Truthy(cuisine_filter) =>
               /\ Len(results) = Len(NamedElements)
               /\ \A i \in 1..Len(NamedElements) :
                      LET tag == TagOf(NamedElements[i]) IN
                      /\ results[i].cuisine_type = FirstMatch(Lower(tag))
                      /\ OccursAnyCase(kw_korean, tag)
                             => results[i].cuisine_type = "Korean"

\* A restaurant was classified Korean although its tag, written with capital
\* letters, also holds the Western keyword 'pizza'.
C1_Witness ==
    /\ places_pc = "done" /\ category = "restaurant"
    /\ \E i \in 1..Len(results) :
           /\ results[i].cuisine_type = "Korean"
           /\ Occurs(<<"p","i","z","z","a">>, results[i].raw_cuisine)
           /\ TagOf(NamedElements[1]) # Lower(TagOf(NamedElements[1]))

\* C2: a restaurant fetch whose selection is empty (or None) or holds "All"
\* returns every named element; with any other selection it returns exactly
\* the named elements whose class is selected, in the order of the response;
\* a hotel or tourism fetch returns every named element whatever the
\* selection.
C2_FilterContract ==
    (places_pc = "done" /\ response.kind = "ok"
         /\ category \in {"restaurant", "hotel", "tourism"}) =>
        LET Kept(e) ==
                \/ category # "restaurant"
                \/ cuisine_filter.is_none
                \/ cuisine_filter.items = {}
                \/ "All" \in cuisine_filter.items
                \/ FirstMatch(Lower(TagOf(e))) \in cuisine_filter.items
            expected == SelectSeq(NamedElements, Kept)
        IN  /\ Len(results) = Len(expected)
            /\ \A i \in 1..Len(expected) :
                   /\ results[i].name = expected[i].name
                   /\ results[i].raw_cuisine = Lower(TagOf(expected[i]))
                   /\ results[i].lat = expected[i].lat
                   /\ results[i].lng = expected[i].lon

\* A restaurant fetch with a selection without "All" dropped one named
\* element and kept another.
C2_Witness ==
    /\ places_pc = "done" /\ category = "restaurant" /\ response.kind = "ok"
    /\ Truthy(cuisine_filter) /\ "All" \notin cuisine_filter.items
    /\ Len(results) = 1 /\ Len(NamedElements) = 2

(***************************************************************************)
(* load_and_process_crime_data                                             *)
(***************************************************************************)
\* Column headers, as sequences of pieces; "\n" is a line break inside a
\* header and " " a blank.
H_lor == <<"LOR-Schluessel", " ", "(Bezirksregion)">>
H_name == <<"Bezeichnung", " ", "(Bezirksregion)">>
H_total == <<"Straftaten", " ", "-", "insgesamt", "-">>
H_total_broken == <<"Straftaten", " ", "\n", "-", "insgesamt", "-", " ", "\n">>
H_theft == <<"Diebstahl", " ", "-", "insgesamt", "-">>
H_lor_padded == H_lor \o <<" ">>
H_lor_broken == <<"LOR-Schluessel", "\n", "(Bezirksregion)">>

Whitespace == {" ", "\n", "\t"}

\* str.strip(): leading and trailing whitespace removed.
RECURSIVE Strip(_)
Strip(s) ==
    IF s = <<>> THEN s
    ELSE IF Head(s) \in Whitespace THEN Strip(Tail(s))
    ELSE IF s[Len(s)] \in Whitespace THEN Strip(SubSeq(s, 1, Len(s) - 1))
    ELSE s

\* c.replace('\n', '').strip()   (line 122)
NormalizeHeader(c) == Strip(SelectSeq(c, LAMBDA x : x # "\n"))

\* 'Straftaten' in c and 'insgesamt' in c   (line 125)
IsTotalHeader(c) ==
    /\ \E i \in 1..Len(c) : c[i] = "Straftaten"
    /\ \E i \in 1..Len(c) : c[i] = "insgesamt"

\* Mutant of EndsWith: the suffix may occur anywhere in the code.
EndsWithAnywhere(code, suffix) ==
    /\ code # NoStr
    /\ Occurs(suffix, code)

\* Series.str.endswith(suffix, na=False) on one cell: a missing code is False.
EndsWith(code, suffix) ==
    /\ code # NoStr
    /\ Len(code) >= Len(suffix)
    /\ SubSeq(code, Len(code) - Len(suffix) + 1, Len(code)) = suffix

str_0000 == <<"0","0","0","0">>

\* Mutant of IsDistrictRow: every row with a region code is kept.
IsDistrictRowAnyCode(row) == row.code # NoStr

\* The row mask of line 135.
IsDistrictRow(row) == EndsWith(row.code, str_0000)

\* pd.DataFrame() of lines 128 and 152: no columns, no rows.
EmptyFrame == [columns |-> <<>>, rows |-> <<>>]

\* The value a row holds in the column with the given header of the file.
Cell(row, header) ==
    IF header \in {H_lor, H_lor_padded, H_lor_broken} THEN row.code
    ELSE IF header = H_name THEN row.name
    ELSE IF header \in {H_total, H_total_broken} THEN row.total
    ELSE row.theft

\* The position of the first column named h after line 122, 0 if there is none.
ColumnIndex(columns, h) ==
    IF \E i \in 1..Len(columns) : NormalizeHeader(columns[i]) = h
    THEN CHOOSE i \in 1..Len(columns) :
             /\ NormalizeHeader(columns[i]) = h
             /\ \A j \in 1..(i - 1) : NormalizeHeader(columns[j]) # h
    ELSE 0

\* total_col[0] of lines 125-129, 0 if the list is empty.
TotalColumn(columns) ==
    IF \E i \in 1..Len(columns) : IsTotalHeader(NormalizeHeader(columns[i]))
    THEN CHOOSE i \in 1..Len(columns) :
             /\ IsTotalHeader(NormalizeHeader(columns[i]))
             /\ \A j \in 1..(i - 1) : ~IsTotalHeader(NormalizeHeader(columns[j]))
    ELSE 0

\* dtype={'LOR-Schluessel (Bezirksregion)': str} of line 114 applies to the
\* column whose header in the file is exactly that name; otherwise pandas
\* infers a numeric column from the digits, and .str of line 135 raises.
CodesReadAsStrings(columns) == \E i \in 1..Len(columns) : columns[i] = H_lor

\* Lines 135-148 on the rows of an accepted table.
DistrictRows(src) ==
    LET kept == SelectSeq(src.rows, IsDistrictRow)
        name_col == src.columns[ColumnIndex(src.columns, H_name)]
        total_col == src.columns[TotalColumn(src.columns)]
    IN  [i \in 1..Len(kept) |->
            [District |-> Strip(Cell(kept[i], name_col)),
             Total_Crime |-> Cell(kept[i], total_col)]]

\* The try block of lines 112-148: read_csv raises on an unreadable file,
\* df[...] on a missing region code column, .str on a column that was not
\* read as strings, df_district['District'] on a missing name column.
LoaderTry(src) ==
    IF ~src.readable THEN Raised("read_error")
    ELSE IF TotalColumn(src.columns) = 0 THEN Returned(EmptyFrame)
    ELSE IF ColumnIndex(src.columns, H_lor) = 0 THEN Raised("KeyError")
    ELSE IF ~CodesReadAsStrings(src.columns) THEN Raised("AttributeError")
    ELSE IF ColumnIndex(src.columns, H_name) = 0 THEN Raised("KeyError")
    ELSE Returned([columns |-> <<"District", "Total_Crime">>,
                   rows |-> DistrictRows(src)])

\* load_and_process_crime_data(csv_file), lines 112-152.
load_and_process_crime_data(src) == Except(LoaderTry(src), EmptyFrame)

(***************************************************************************)
(* Inputs of the loader                                                    *)
(***************************************************************************)
\* Longest source table, in rows.
MaxRows == 2

ColumnLayouts == {
    <<H_lor, H_name, H_total>>,
    <<H_lor, H_name, H_theft, H_total_broken>>,
    <<H_lor, H_name, H_theft>>,
    <<H_lor_padded, H_name, H_total>>,
    <<H_lor_broken, H_name, H_total>>,
    <<H_lor, H_total>> }

str_Mitte == <<"M","i","t","t","e">>
str_Pankow == <<"P","a","n","k","o","w">>
str_Tiergarten == <<"T","i","e","r","g","a","r","t","e","n">>

SourceRows == {
    [code |-> <<"0","1","0","0","0","0">>, name |-> str_Mitte, total |-> 120, theft |-> 30],
    [code |-> <<"0","1","0","0","0","0">>, name |-> <<" ">> \o str_Mitte \o <<" ">>,
     total |-> 120, theft |-> 30],
    [code |-> <<"0","1","1","0","0","1">>, name |-> str_Tiergarten, total |-> 40, theft |-> 10],
    [code |-> <<"0","2","0","0","0","0">>, name |-> str_Pankow, total |-> 90, theft |-> 20],
    [code |-> <<"0","2","0","0","0","0">>, name |-> str_Mitte, total |-> 90, theft |-> 20],
    [code |-> <<"0","2","1","0","0","1">>, name |-> str_Pankow, total |-> 15, theft |-> 5],
    [code |-> <<"0","0","0","0","1","0">>, name |-> str_Tiergarten, total |-> 7, theft |-> 1],
    [code |-> <<"0","0","0">>, name |-> str_Mitte, total |-> 3, theft |-> 1],
    [code |-> NoStr, name |-> str_Pankow, total |-> 500, theft |-> 100] }

Sources ==
    { [readable |-> r, columns |-> c, rows |-> rs] :
        r \in BOOLEAN, c \in ColumnLayouts, rs \in SeqsUpTo(SourceRows, MaxRows) }

InitLoader ==
    /\ csv_file \in Sources
    /\ crime_df = EmptyFrame
    /\ loader_pc = "start"

\* One call of load_and_process_crime_data.
LoadCrimeData ==
    /\ loader_pc = "start"
    /\ crime_df' = load_and_process_crime_data(csv_file).value
    /\ loader_pc' = "done"
    /\ UNCHANGED csv_file

IdleLoader ==
    /\ csv_file = [readable |-> FALSE, columns |-> <<>>, rows |-> <<>>]
    /\ crime_df = EmptyFrame
    /\ loader_pc = "idle"

(***************************************************************************)
(* C3, C4: the rows the loader returns                                     *)
(***************************************************************************)
\* The last four characters of the region code are all '0'.
HasSuffix0000(code) ==
    /\ code # NoStr
    /\ Len(code) >= 4
    /\ \A j \in 0..3 : code[Len(code) - j] = "0"

\* The loader accepts the table: the file is readable and holds the region
\* code column under exactly its name, the district name column and a total
\* offences column.
SourceAccepted ==
    /\ csv_file.readable
    /\ \E i \in 1..Len(csv_file.columns) : csv_file.columns[i] = H_lor
    /\ \E i \in 1..Len(csv_file.columns) :
           NormalizeHeader(csv_file.columns[i]) = H_name
    /\ \E i \in 1..Len(csv_file.columns) :
           IsTotalHeader(NormalizeHeader(csv_file.columns[i]))

\* The positions of the source rows whose code ends in '0000'.
AggregateRows == { i \in 1..Len(csv_file.rows) : HasSuffix0000(csv_file.rows[i].code) }

\* The output holds one row for each source row whose code ends in '0000',
\* in source order, and no other row.
RetainsExactlyAggregateRows ==
    /\ Len(crime_df.rows) = Cardinality(AggregateRows)
    /\ \A i \in AggregateRows :
           LET k == Cardinality({ j \in AggregateRows : j <= i }) IN
           /\ crime_df.rows[k].District = Strip(csv_file.rows[i].name)
           /\ crime_df.rows[k].Total_Crime = csv_file.rows[i].total

\* C3 as stated: from any source, a row is returned for a source row if and
\* only if its region code ends in '0000'.
C3_AnySource == loader_pc = "done" => RetainsExactlyAggregateRows

\* C3, amended: from any source the loader accepts, a row is returned for a
\* source row if and only if its region code ends in '0000'; rows with another
\* suffix, a shorter code or a missing code are excluded.
C3_AcceptedSource ==
    (loader_pc = "done" /\ SourceAccepted) => RetainsExactlyAggregateRows

\* An accepted table with the rows 010000 and 011001 gave the single row of
\* 010000.
C3_Witness ==
    /\ loader_pc = "done" /\ SourceAccepted
    /\ Len(csv_file.rows) = 2
    /\ csv_file.rows[1].code = <<"0","1","0","0","0","0">>
    /\ csv_file.rows[2].code = <<"0","1","1","0","0","1">>
    /\ Len(crime_df.rows) = 1
    /\ crime_df.rows[1].Total_Crime = 120

\* The top-level district of a region code: its first two digits (010000 is
\* the total of district 01, 011001 a sub-region of it; lines 131-134).
DistrictOf(code) == SubSeq(code, 1, 2)

SourceDistricts ==
    { DistrictOf(csv_file.rows[i].code) :
        i \in { j \in 1..Len(csv_file.rows) : csv_file.rows[j].code # NoStr } }

\* No district name is in two output rows, and there are as many output rows
\* as districts with rows in the source.
OneRowPerDistrict ==
    /\ \A k, l \in 1..Len(crime_df.rows) :
           crime_df.rows[k].District = crime_df.rows[l].District => k = l
    /\ Len(crime_df.rows) = Cardinality(SourceDistricts)

\* C4 as stated: every accepted table gives exactly one row per district.
C4_AnyAcceptedSource ==
    (loader_pc = "done" /\ SourceAccepted) => OneRowPerDistrict

\* The table holds exactly one '0000' row for each district with rows in it,
\* and these rows carry different names.
OneAggregateRowPerDistrict ==
    /\ \A d \in SourceDistricts :
           Cardinality({ i \in AggregateRows :
                           DistrictOf(csv_file.rows[i].code) = d }) = 1
    /\ \A i, j \in AggregateRows :
           Strip(csv_file.rows[i].name) = Strip(csv_file.rows[j].name) => i = j

\* C4, amended: every accepted table that holds exactly one '0000' row per
\* district, each under its own name, gives exactly one row per district.
C4_OneAggregateRowPerDistrict ==
    (loader_pc = "done" /\ SourceAccepted /\ OneAggregateRowPerDistrict)
        => OneRowPerDistrict

\* A table with the total row of a district and one of its sub-regions gave
\* the one row of the district.
C4_Witness ==
    /\ loader_pc = "done" /\ SourceAccepted /\ OneAggregateRowPerDistrict
    /\ Len(csv_file.rows) = 2
    /\ Cardinality(AggregateRows) = 1
    /\ Cardinality(SourceDistricts) = 1
    /\ Len(crime_df.rows) = 1

(***************************************************************************)
(* The memoized fetchers                                                   *)
(***************************************************************************)
\* Most runs of one function body on one argument tuple that are followed.
MaxCalls == 2

\* What a request produced: an exception of requests.get ("network_error",
\* "timeout"), a body that is not JSON, or a JSON document, a dictionary
\* given as a record of its keys.
RequestFailures == {"network_error", "timeout", "not_json"}

\* The try block of lines 37-39.
ExchangeTry(resp) ==
    IF resp.kind # "json" THEN Raised(resp.kind)
    ELSE IF "rates" \notin DOMAIN resp.data THEN Raised("KeyError")
    ELSE IF "KRW" \notin DOMAIN resp.data.rates THEN Raised("KeyError")
    ELSE Returned(resp.data.rates.KRW)

\* get_exchange_rate(), lines 35-41.
get_exchange_rate(resp) == Except(ExchangeTry(resp), 1450)

\* The try block of lines 46-48.
WeatherTry(resp) ==
    IF resp.kind # "json" THEN Raised(resp.kind)
    ELSE IF "current_weather" \notin DOMAIN resp.data THEN Raised("KeyError")
    ELSE Returned(resp.data.current_weather)

\* get_weather(), lines 44-50.
get_weather(resp) ==
    Except(WeatherTry(resp), [temperature |-> 15, weathercode |-> 0])

ExchangeResponses ==
    { [kind |-> k, data |-> [error |-> TRUE]] : k \in RequestFailures }
    \cup { [kind |-> "json", data |-> d] :
             d \in { [rates |-> [KRW |-> 1380, USD |-> 1]],
                     [rates |-> [KRW |-> 1502, USD |-> 1]],
                     [rates |-> [USD |-> 1]],
                     [error |-> TRUE] } }

WeatherResponses ==
    { [kind |-> k, data |-> [error |-> TRUE]] : k \in RequestFailures }
    \cup { [kind |-> "json", data |-> d] :
             d \in { [current_weather |-> [temperature |-> 21, weathercode |-> 3]],
                     [error |-> TRUE] } }

\* The Overpass responses of the render cycle: the failures, and one document
\* with a Korean and a Western restaurant.
RenderPlacesResponses ==
    { [kind |-> k, elements |-> <<>>] :
        k \in {"network_error", "timeout", "not_json", "missing_key"} }
    \cup { [kind |-> "ok",
            elements |-> << Node(TRUE, "a", kw_korean),
                            Node(TRUE, "b", <<"P","i","z","z","a">>) >>] }

\* berlin_crime_2024.csv as found on disk by line 299.
RenderSources ==
    { [readable |-> FALSE, columns |-> <<>>, rows |-> <<>>] }
    \cup { [readable |-> TRUE, columns |-> <<H_lor, H_name, H_total>>,
            rows |-> << [code |-> <<"0","1","0","0","0","0">>, name |-> str_Mitte,
                         total |-> 120, theft |-> 30],
                        [code |-> <<"0","1","1","0","0","1">>, name |-> str_Tiergarten,
                         total |-> 40, theft |-> 10] >>] }

\* The key st.cache_data files a call under: the function and its arguments.
Key(fn, args) == [fn |-> fn, args |-> args]

\* [52.5200, 13.4050] (line 238), in units of 0.0001 degree.
DefaultCentre == <<525200, 134050>>

\* map_center as passed to the place fetches (center[0], center[1]).
Centres == { DefaultCentre }

\* The selections the restaurant layer is fetched with (line 315 skips the
\* fetch for an empty selection).
RenderSelections == { Selected({"All"}), Selected({"Korean"}) }

PlacesKeys ==
    { Key("get_osm_places", <<"restaurant", c, 3000, f>>) :
        c \in Centres, f \in RenderSelections }
    \cup { Key("get_osm_places", <<cat, c, 3000, NoFilter>>) :
             c \in Centres, cat \in {"hotel", "tourism"} }

CacheKeys ==
    { Key("get_exchange_rate", <<>>), Key("get_weather", <<>>),
      Key("load_and_process_crime_data", <<"berlin_crime_2024.csv">>) }
    \cup PlacesKeys

NotCached == [cached |-> FALSE, value |-> <<>>]

\* Mutant of CacheHit: the memoized value is never found.
CacheNeverHits(c, key) == FALSE

\* st.cache_data: a value is stored under the key of this call.
CacheHit(c, key) == c[key].cached

\* A call of a function decorated with st.cache_data: on a hit the stored
\* value is handed back and the body does not run; on a miss the body runs
\* and its return value is stored; an exception of the body is not stored
\* and propagates.  runs are the ways the body can run: the outcome of its
\* code (block) and whether the request it made failed.
Memoized(key, runs) ==
    IF CacheHit(cache, key)
    THEN /\ returned' = cache[key].value
         /\ last' = [called |-> TRUE, key |-> key, hit |-> TRUE,
                     failed |-> FALSE, raised |-> FALSE]
         /\ UNCHANGED <<cache, calls, first>>
    ELSE \E run \in runs :
         /\ calls[key] < MaxCalls
         /\ cache' = IF run.block.raised # "none" THEN cache
                     ELSE [cache EXCEPT ![key] =
                               [cached |-> TRUE, value |-> run.block.value]]
         /\ calls' = [calls EXCEPT ![key] = @ + 1]
         /\ first' = IF first[key].cached THEN first
                     ELSE [first EXCEPT ![key] =
                               [cached |-> TRUE, value |-> run.block.value]]
         /\ returned' = run.block.value
         /\ last' = [called |-> TRUE, key |-> key, hit |-> FALSE,
                     failed |-> run.failed, raised |-> run.block.raised # "none"]

InitFetch ==
    /\ cache = [k \in CacheKeys |-> NotCached]
    /\ calls = [k \in CacheKeys |-> 0]
    /\ first = [k \in CacheKeys |-> NotCached]
    /\ last = [called |-> FALSE, key |-> Key("get_exchange_rate", <<>>),
               hit |-> FALSE, failed |-> FALSE, raised |-> FALSE]
    /\ returned = <<>>

IdleFetch == InitFetch

\* rate = get_exchange_rate()   (line 244)
RenderExchangeRate ==
    Memoized(Key("get_exchange_rate", <<>>),
             { [block |-> get_exchange_rate(resp),
                failed |-> \/ resp.kind # "json"
                           \/ "rates" \notin DOMAIN resp.data
                           \/ "KRW" \notin DOMAIN resp.data.rates] :
               resp \in ExchangeResponses })

\* w = get_weather()   (line 247)
RenderWeather ==
    Memoized(Key("get_weather", <<>>),
             { [block |-> get_weather(resp),
                failed |-> \/ resp.kind # "json"
                           \/ "current_weather" \notin DOMAIN resp.data] :
               resp \in WeatherResponses })

\* crime_df = load_and_process_crime_data("berlin_crime_2024.csv")   (line 299)
RenderCrime ==
    Memoized(Key("load_and_process_crime_data", <<"berlin_crime_2024.csv">>),
             { [block |-> load_and_process_crime_data(src),
                failed |-> ~src.readable] : src \in RenderSources })

\* get_osm_places(cat, center[0], center[1], 3000, filter) of a render cycle.
RenderPlaces(cat, c, filter) ==
    Memoized(Key("get_osm_places", <<cat, c, 3000, filter>>),
             { [block |-> get_osm_places(cat, filter, resp),
                failed |-> resp.kind # "ok"] : resp \in RenderPlacesResponses })

\* places = get_osm_places('restaurant', center[0], center[1], 3000,
\*                         selected_cuisines)   (lines 315-316)
RenderRestaurants ==
    \E c \in Centres, sel \in RenderSelections :
        Truthy(sel) /\ RenderPlaces("restaurant", c, sel)

\* hotels = get_osm_places('hotel', center[0], center[1], 3000)   (line 331)
RenderHotels == \E c \in Centres : RenderPlaces("hotel", c, NoFilter)

\* tours = get_osm_places('tourism', center[0], center[1], 3000)   (line 340)
RenderTourism == \E c \in Centres : RenderPlaces("tourism", c, NoFilter)

(***************************************************************************)
(* C5, C6: fallbacks and memoization                                       *)
(***************************************************************************)
\* The documented fallback of each fetcher.
DocumentedFallback(fn) ==
    CASE fn = "get_exchange_rate" -> 1450
      [] fn = "get_weather" -> [temperature |-> 15, weathercode |-> 0]
      [] fn = "get_osm_places" -> <<>>

FallbackFetchers == {"get_exchange_rate", "get_weather", "get_osm_places"}

C6_AtMostOneCallPerKey ==
    /\ \A k \in CacheKeys : calls[k] <= 1
    /\ last.called => /\ first[last.key].cached
                      /\ returned = first[last.key].value

\* A later call of get_exchange_rate was answered from the cache with the
\* fallback a failed first call had produced.
C6_Witness ==
    /\ last.called /\ last.hit
    /\ last.key.fn = "get_exchange_rate"
    /\ calls[last.key] = 1
    /\ returned = 1450

(***************************************************************************)
(* The review board (lines 393-420)                                        *)
(***************************************************************************)
\* Most reviews of one place.
MaxReviews == 2

\* Places reviews are written for; "" is the empty text input of line 401.
PlaceNames == {"Mauerpark", "Voo Store"}
ReviewTexts == {"nice", "crowded"}

\* A widget event: what was clicked or submitted, with the place and index
\* in the key of a delete button (f"del_{sel_place}_{i}", line 418) and the
\* text of a form; fired tells whether a handler of the script ran for it.
Event(type, place, index, text, fired) ==
    [type |-> type, place |-> place, index |-> index, text |-> text,
     fired |-> fired]

NoEvent == Event("none", "", 0, "", FALSE)

\* Mutant of DelItem: the last entry is removed (lst.pop()).
DelLastItem(lst, i) ==
    IF i < Len(lst)
    THEN Returned(SubSeq(lst, 1, Len(lst) - 1))
    ELSE Raised("IndexError")

\* del lst[i] with i >= 0 counted from 0: raises IndexError out of range.
DelItem(lst, i) ==
    IF i < Len(lst)
    THEN Returned(SubSeq(lst, 1, i) \o SubSeq(lst, i + 2, Len(lst)))
    ELSE Raised("IndexError")

\* Lines 403-405: a selected place gets an empty review list if it has none.
EnsureList(revs, sel) ==
    IF sel # "" /\ sel \notin DOMAIN revs THEN revs @@ (sel :> <<>>) ELSE revs

\* Mutant of DeleteButtonFires: the index in the key is not compared with
\* the entries shown.
DeleteButtonFiresAnyIndex(sel, revs, place, index) ==
    /\ sel # ""
    /\ place = sel

\* Lines 403 and 413-418: the script shows one delete button for each entry
\* of the selected place, keyed by the place and the position; the button
\* whose key was clicked returns True.
DeleteButtonFires(sel, revs, place, index) ==
    /\ sel # ""
    /\ place = sel
    /\ index \in 0..(Len(revs[sel]) - 1)

InitReviews ==
    /\ sel_place = "Mauerpark"
    /\ reviews = ("Mauerpark" :> <<>>)

InitEvents ==
    /\ event = NoEvent
    /\ error = FALSE

\* The place is chosen in the selectbox or typed (lines 398-401).
SelectPlace ==
    \E p \in PlaceNames \cup {""} :
        /\ sel_place' = p
        /\ reviews' = EnsureList(reviews, p)
        /\ event' = Event("select_place", p, 0, "", TRUE)
        /\ error' = FALSE

\* The review form is submitted (lines 407-411).
SubmitReview ==
    \E txt \in ReviewTexts :
        /\ sel_place # ""
        /\ Len(EnsureList(reviews, sel_place)[sel_place]) < MaxReviews
        /\ reviews' = [EnsureList(reviews, sel_place) EXCEPT
                           ![sel_place] = Append(@, txt)]
        /\ event' = Event("add_review", sel_place, 0, txt, TRUE)
        /\ error' = FALSE
        /\ UNCHANGED sel_place

\* The click of a delete button arrives (lines 413-420); the button may be
\* one of an earlier rendering, for an entry or a place no longer shown.
ClickDeleteReview ==
    \E p \in PlaceNames, i \in 0..MaxReviews :
        LET revs == EnsureList(reviews, sel_place)
            fires == DeleteButtonFires(sel_place, revs, p, i)
            del == IF fires THEN DelItem(revs[sel_place], i) ELSE Returned(<<>>)
        IN  /\ reviews' = IF fires /\ del.raised = "none"
                          THEN [revs EXCEPT ![sel_place] = del.value]
                          ELSE revs
            /\ event' = Event("delete_review", p, i, "", fires)
            /\ error' = (del.raised # "none")
            /\ UNCHANGED sel_place

(***************************************************************************)
(* C7, C9: deleting a review                                               *)
(***************************************************************************)
\* The list of reviews of a place, empty if it has none.
ReviewsOf(revs, p) == IF p \in DOMAIN revs THEN revs[p] ELSE <<>>

\* C7: a delete event whose index is outside the range of the review list of
\* its place changes no review list and puts no error before the user.
C7_OutOfRangeDeleteIsNoOp ==
    [][ (/\ event'.type = "delete_review"
         /\ event'.index >= Len(ReviewsOf(reviews, event'.place)))
        => (reviews' = reviews /\ ~error') ]_vars

\* A delete event for the place shown, which has a review, carried an index
\* past its last entry and was not handled.
C7_Witness ==
    /\ event.type = "delete_review" /\ ~event.fired /\ ~error
    /\ event.place = sel_place
    /\ Len(ReviewsOf(reviews, event.place)) > 0
    /\ event.index >= Len(ReviewsOf(reviews, event.place))

MaxAdds == 3

\* Texts of the form; nothing stops an empty place name.
RecPlaces == {"Curry 36", ""}
RecReasons == {"tasty"}

\* Mutant of ListInsert: the entry is appended (lst.append(x)).
ListInsertAtEnd(lst, idx, x) == Append(lst, x)

\* lst.insert(idx, x) for 0 <= idx <= len(lst), idx counted from 0.
ListInsert(lst, idx, x) ==
    SubSeq(lst, 1, idx) \o <<x>> \o SubSeq(lst, idx + 1, Len(lst))

\* Lines 433-436: one delete button for each entry, keyed by its position.
RecDeleteButtonFires(recs, index) == index \in 0..(Len(recs) - 1)

InitRecs ==
    /\ recommendations = <<>>
    /\ rec_count = 0

\* The recommendation form is submitted (lines 426-431).
SubmitRecommendation ==
    \E rec_place \in RecPlaces, rec_desc \in RecReasons :
        /\ rec_count < MaxAdds
        /\ rec_count' = rec_count + 1
        /\ recommendations' =
               ListInsert(recommendations, 0,
                          [place |-> rec_place, desc |-> rec_desc,
                           added |-> rec_count + 1])
        /\ event' = Event("add_recommendation", rec_place, 0, rec_desc, TRUE)
        /\ error' = FALSE

\* The click of a delete button of the board arrives (lines 436-438).
ClickDeleteRecommendation ==
    \E i \in 0..MaxAdds :
        LET fires == RecDeleteButtonFires(recommendations, i)
            del == IF fires THEN DelItem(recommendations, i) ELSE Returned(<<>>)
        IN  /\ recommendations' = IF fires /\ del.raised = "none"
                                  THEN del.value ELSE recommendations
            /\ event' = Event("delete_recommendation", "", i, "", fires)
            /\ error' = (del.raised # "none")
            /\ UNCHANGED rec_count

(***************************************************************************)
(* C8: the recommendation list is most-recent-first                        *)
(***************************************************************************)
\* Of any two entries the one submitted later is at the lower index.
MostRecentFirst ==
    \A i, j \in 1..Len(recommendations) :
        i < j => recommendations[i].added > recommendations[j].added

\* A submission puts its entry at index 0 and moves every entry up by one.
AddPutsEntryFirst ==
    event'.type = "add_recommendation" =>
        /\ Len(recommendations') = Len(recommendations) + 1
        /\ recommendations'[1].place = event'.place
        /\ recommendations'[1].desc = event'.text
        /\ recommendations'[1].added = rec_count'
        /\ \A i \in 1..Len(recommendations) :
               recommendations'[i + 1] = recommendations[i]

\* C8: after any sequence of submissions and deletions the list is ordered
\* most-recent-first, each submission entering at index 0 and shifting the
\* entries present up by one index.
C8_MostRecentFirst == []MostRecentFirst /\ [][AddPutsEntryFirst]_vars

\* After a deletion in between, the third submission stands before the first.
C8_Witness ==
    /\ Len(recommendations) = 2
    /\ recommendations[1].added = 3
    /\ recommendations[2].added = 1
    /\ event.type = "add_recommendation"

(***************************************************************************)
(* The sidebar search (lines 162-172 and 257-265)                          *)
(***************************************************************************)
\* A Python value that is None or a float; coordinates are written in units
\* of 0.0001 degree.
PyNone == [is_none |-> TRUE, val |-> 0]
PyFloat(x) == [is_none |-> FALSE, val |-> x]

\* The truth value of such a value: None and 0.0 are false.
PyTruth(x) == ~x.is_none /\ x.val # 0

\* The try block of lines 164-169 followed by line 172: the match of a
\* non-empty answer, (None, None, None) for an empty one.
SearchTry(resp) ==
    IF resp.kind # "json" THEN Raised(resp.kind)
    ELSE IF resp.res = <<>>
    THEN Returned([lat |-> PyNone, lng |-> PyNone, name |-> ""])
    ELSE Returned([lat |-> PyFloat(resp.res[1].lat),
                   lng |-> PyFloat(resp.res[1].lon),
                   name |-> resp.res[1].display_name])

\* search_location(query), lines 162-172, on what Nominatim produced.
search_location(resp) ==
    Except(SearchTry(resp), [lat |-> PyNone, lng |-> PyNone, name |-> ""]).value

\* st.session_state['search_marker']: None, or the dictionary of line 262.
NoMarker == [is_none |-> TRUE, lat |-> 0, lng |-> 0, name |-> ""]
Marker(lat, lng, name) == [is_none |-> FALSE, lat |-> lat, lng |-> lng, name |-> name]

\* if lat and lng:   (line 260)
SearchSucceeded(found) == PyTruth(found.lat) /\ PyTruth(found.lng)

SearchQueries == {"", "Curry 36", "Null Island"}

GeoLats == {0, 525010, 481370}
GeoLons == {0, 133900, 115820}

GeoResponses ==
    { [kind |-> k, res |-> <<>>] : k \in {"network_error", "timeout", "not_json"} }
    \cup { [kind |-> "json", res |-> <<>>] }
    \cup { [kind |-> "json",
            res |-> << [lat |-> la, lon |-> lo, display_name |-> "match"] >>] :
             la \in GeoLats, lo \in GeoLons }

InitSearch ==
    /\ map_center = DefaultCentre
    /\ search_marker = NoMarker
    /\ search_query = ""
    /\ last_found = NoMarker

\* Lines 258-265 of a script run with the given text in the search box.
RunSearch(query, resp) ==
    LET found == search_location(resp) IN
    /\ search_query' = query
    /\ IF query # "" /\ SearchSucceeded(found)
       THEN /\ map_center' = <<found.lat.val, found.lng.val>>
            /\ search_marker' = Marker(found.lat.val, found.lng.val, found.name)
       ELSE UNCHANGED <<map_center, search_marker>>
    /\ last_found' = IF query # "" /\ ~found.lat.is_none
                     THEN Marker(found.lat.val, found.lng.val, found.name)
                     ELSE last_found
    /\ error' = FALSE

\* The user enters a text in the search box (line 257).
EnterQuery ==
    \E q \in SearchQueries, resp \in GeoResponses :
        /\ RunSearch(q, resp)
        /\ event' = Event("search", q, 0, "", q # "")

\* Another widget is used: the script runs again with the text still in the
\* search box, and searches again.
RerunWithQuery ==
    \E resp \in GeoResponses :
        /\ RunSearch(search_query, resp)
        /\ event' = Event("rerun", search_query, 0, "", search_query # "")

(***************************************************************************)
(* C10: the search marker                                                  *)
(***************************************************************************)
\* C10 as stated: the marker is the result of the most recent search that
\* found a location (there is none before the first such search), and the
\* map is centred on it.
C10_MarkerIsLatestFoundLocation ==
    /\ search_marker = last_found
    /\ map_center = IF last_found.is_none THEN DefaultCentre
                    ELSE <<last_found.lat, last_found.lng>>

(***************************************************************************)
(* The Gemini chat (lines 154-160 and 440-452)                             *)
(***************************************************************************)
MaxChats == 3

\* "API 키가 필요합니다." (line 155) and "AI 응답 오류" (line 160), in ASCII.
str_key_needed == "API key needed"
str_ai_error == "AI response error"

\* st.secrets.get("gemini_api_key", "") (line 15): the key, or "".
ApiKeys == {"", "key"}

\* What st.chat_input hands to the script when a prompt was submitted: a
\* string that is not empty.
Prompts == {"museums?", "dinner?"}
NoPrompt == "<None>"

\* What the Gemini service does with a prompt: generate_content raises
\* (network, quota, key not accepted, client not configured), or it returns
\* a response whose .text raises (no candidate, blocked prompt), or a
\* response with a text.
GeminiOutcomes ==
    { [kind |-> "api_error", text |-> ""],
      [kind |-> "no_text", text |-> ""],
      [kind |-> "ok", text |-> "Try Museum Island."],
      [kind |-> "ok", text |-> ""] }
NoOutcome == [kind |-> "none", text |-> ""]

\* The try block of lines 157-159.
GeminiTry(outcome) ==
    IF outcome.kind = "api_error" THEN Raised("APIError")
    ELSE IF outcome.kind = "no_text" THEN Raised("ValueError")
    ELSE Returned(outcome.text)

\* Mutant of get_gemini_response: lines 157-159 without the try.
get_gemini_response_unguarded(key, outcome) ==
    IF key = "" THEN Returned(str_key_needed)
    ELSE GeminiTry(outcome)

\* Lines 154-160: `not GEMINI_API_KEY` is true of the empty string; the
\* bare except catches everything the block raises.
get_gemini_response(key, outcome) ==
    IF key = "" THEN Returned(str_key_needed)
    ELSE Except(GeminiTry(outcome), str_ai_error)

Message(role, content) == [role |-> role, content |-> content]

\* Lines 15 and 237.
InitChat ==
    /\ GEMINI_API_KEY \in ApiKeys
    /\ messages = <<>>
    /\ prompt = NoPrompt
    /\ chat_pc = "idle"
    /\ chat_count = 0
    /\ gemini = NoOutcome

\* The chat of a session in which no prompt is submitted.
IdleChat ==
    /\ GEMINI_API_KEY = ""
    /\ messages = <<>>
    /\ prompt = NoPrompt
    /\ chat_pc = "idle"
    /\ chat_count = 0
    /\ gemini = NoOutcome

\* A prompt is submitted: lines 446-449, up to the call of line 450.
ChatSubmit ==
    \E p \in Prompts :
        /\ chat_pc = "idle"
        /\ chat_count < MaxChats
        /\ prompt' = p
        /\ messages' = Append(messages, Message("user", p))
        /\ chat_count' = chat_count + 1
        /\ chat_pc' = "asking"
        /\ event' = Event("chat_input", "", 0, p, TRUE)
        /\ error' = FALSE
        /\ UNCHANGED <<GEMINI_API_KEY, gemini>>

\* Lines 450-452: the call returns and its value is appended; an exception
\* leaving the call would end the script run before line 452.  The service
\* is called only when there is a key.
ChatRespond ==
    \E outcome \in GeminiOutcomes :
        LET resp == get_gemini_response(GEMINI_API_KEY, outcome)
        IN  /\ chat_pc = "asking"
            /\ gemini' = IF GEMINI_API_KEY = "" THEN NoOutcome ELSE outcome
            /\ messages' = IF resp.raised = "none"
                           THEN Append(messages, Message("assistant", resp.value))
                           ELSE messages
            /\ error' = (resp.raised # "none")
            /\ prompt' = NoPrompt
            /\ chat_pc' = "idle"
            /\ UNCHANGED <<GEMINI_API_KEY, chat_count, event>>

\* A script run for another widget: st.chat_input returns None (line 446).
ChatRerun ==
    /\ chat_pc = "idle"
    /\ event' = Event("rerun", "", 0, "", FALSE)
    /\ error' = FALSE
    /\ UNCHANGED chatVars

(***************************************************************************)
(* C11: the chat transcript                                                *)
(***************************************************************************)
IsPrefix(s, t) == Len(s) <= Len(t) /\ SubSeq(t, 1, Len(s)) = s

RoleAt(i) == IF i % 2 = 1 THEN "user" ELSE "assistant"

\* No submission is half done: the script is not between lines 447 and 452.
ChatCompleted == chat_pc = "idle"

Alternates == \A i \in 1..Len(messages) : messages[i].role = RoleAt(i)

TranscriptOfCompletedSubmissions ==
    ChatCompleted =>
        /\ Len(messages) = 2 * chat_count
        /\ Alternates

\* The step that takes a prompt appends it as a user message.
PromptIsAppended ==
    (chat_pc = "idle" /\ chat_pc' = "asking") =>
        messages' = Append(messages, Message("user", prompt'))

\* The step that completes a submission appends one assistant message: the
\* text of the service, or the fixed string when there is no key or the
\* service failed.
AnswerIsAppended ==
    (chat_pc = "asking" /\ chat_pc' = "idle") =>
        /\ Len(messages') = Len(messages) + 1
        /\ messages'[Len(messages')].role = "assistant"
        /\ messages'[Len(messages')].content =
               IF GEMINI_API_KEY = "" THEN str_key_needed
               ELSE IF gemini'.kind = "ok" THEN gemini'.text
               ELSE str_ai_error

EarlierMessagesUnchanged == IsPrefix(messages, messages')

\* C11: every chat submission appends the user's prompt and then one
\* assistant message, which is the fixed error string when the service fails
\* or there is no key; whenever no submission is half done the transcript
\* has two messages for each submission, alternating user, assistant from
\* the first; and no step changes a message that is already there.
C11_SubmissionAppendsPromptAndAnswer ==
    /\ []TranscriptOfCompletedSubmissions
    /\ [][PromptIsAppended /\ AnswerIsAppended /\ EarlierMessagesUnchanged]_vars

\* Two completed submissions with a key, the first answered by the fixed
\* string because the service failed, the second by the service.
C11_Witness ==
    /\ ChatCompleted
    /\ GEMINI_API_KEY # ""
    /\ Len(messages) = 4
    /\ messages[2] = Message("assistant", str_ai_error)
    /\ messages[4].content \notin {str_ai_error, str_key_needed}
    /\ gemini.kind = "ok"

(***************************************************************************)
(* Specifications                                                          *)
(***************************************************************************)
\* The session state as the first script run leaves it.
sessionVars == <<reviewVars, recVars, searchVars, chatVars, eventVars>>
IdleSession == InitReviews /\ InitRecs /\ InitSearch /\ IdleChat /\ InitEvents

\* The place fetch on every category, selection and response.
PlacesInit == InitPlaces /\ IdleLoader /\ IdleFetch /\ IdleSession
PlacesNext == GetOsmPlaces /\ UNCHANGED <<loaderVars, fetchVars, sessionVars>>
SpecPlaces == PlacesInit /\ [][PlacesNext]_vars

\* The loader on every source table.
LoaderInit == InitLoader /\ IdlePlaces /\ IdleFetch /\ IdleSession
LoaderNext == LoadCrimeData /\ UNCHANGED <<placesVars, fetchVars, sessionVars>>
SpecLoader == LoaderInit /\ [][LoaderNext]_vars

\* The fetchers as called, through st.cache_data, by render cycles.
FetchInit == InitFetch /\ IdlePlaces /\ IdleLoader /\ IdleSession
FetchNext ==
    \/ RenderExchangeRate /\ UNCHANGED <<placesVars, loaderVars, sessionVars>>
    \/ RenderWeather /\ UNCHANGED <<placesVars, loaderVars, sessionVars>>
    \/ RenderCrime /\ UNCHANGED <<placesVars, loaderVars, sessionVars>>
    \/ RenderRestaurants /\ UNCHANGED <<placesVars, loaderVars, sessionVars>>
    \/ RenderHotels /\ UNCHANGED <<placesVars, loaderVars, sessionVars>>
    \/ RenderTourism /\ UNCHANGED <<placesVars, loaderVars, sessionVars>>
SpecFetch == FetchInit /\ [][FetchNext]_vars

\* The review board under the events of its widgets.
ReviewsInit == IdleSession /\ IdlePlaces /\ IdleLoader /\ IdleFetch
ReviewsNext ==
    \/ SelectPlace /\ UNCHANGED <<placesVars, loaderVars, fetchVars, recVars, searchVars, chatVars>>
    \/ SubmitReview /\ UNCHANGED <<placesVars, loaderVars, fetchVars, recVars, searchVars, chatVars>>
    \/ ClickDeleteReview /\ UNCHANGED <<placesVars, loaderVars, fetchVars, recVars, searchVars, chatVars>>
SpecReviews == ReviewsInit /\ [][ReviewsNext]_vars

\* The recommendation board under the events of its widgets.
RecsInit == IdleSession /\ IdlePlaces /\ IdleLoader /\ IdleFetch
RecsNext ==
    \/ SubmitRecommendation
           /\ UNCHANGED <<placesVars, loaderVars, fetchVars, reviewVars, searchVars, chatVars>>
    \/ ClickDeleteRecommendation
           /\ UNCHANGED <<placesVars, loaderVars, fetchVars, reviewVars, searchVars, chatVars>>
SpecRecs == RecsInit /\ [][RecsNext]_vars

\* The sidebar search over script runs.
SearchInit == IdleSession /\ IdlePlaces /\ IdleLoader /\ IdleFetch
SearchNext ==
    \/ EnterQuery /\ UNCHANGED <<placesVars, loaderVars, fetchVars, reviewVars, recVars, chatVars>>
    \/ RerunWithQuery /\ UNCHANGED <<placesVars, loaderVars, fetchVars, reviewVars, recVars, chatVars>>
SpecSearch == SearchInit /\ [][SearchNext]_vars

\* The chat over script runs, with and without a key.
ChatInit ==
    /\ InitChat /\ InitReviews /\ InitRecs /\ InitSearch /\ InitEvents
    /\ IdlePlaces /\ IdleLoader /\ IdleFetch
ChatNext ==
    \/ ChatSubmit
           /\ UNCHANGED <<placesVars, loaderVars, fetchVars, reviewVars, recVars, searchVars>>
    \/ ChatRespond
           /\ UNCHANGED <<placesVars, loaderVars, fetchVars, reviewVars, recVars, searchVars>>
    \/ ChatRerun
           /\ UNCHANGED <<placesVars, loaderVars, fetchVars, reviewVars, recVars, searchVars>>
SpecChat == ChatInit /\ [][ChatNext]_vars

====
